---- MODULE Spec2Model ----
(***************************************************************************)
(* WoodenMart API (src/main.py, src/schemas.py): the product catalog       *)
(* requests and the checkout handler, over the document store and the      *)
(* payment processor.                                                      *)
(*                                                                         *)
(* Money is written in hundredths (a price of 19.99 is 1999).  The         *)
(* simulated path keeps its float products and sums in hundredths; the     *)
(* real path's int(float(price) * 100) is computed bit by bit in IEEE-754  *)
(* double arithmetic (FloatDiv, FloatMul, FloatTrunc).                     *)
(*                                                                         *)
(* FastAPI runs the plain "def" handlers on a thread pool, so requests     *)
(* interleave at the database calls: each find_one of the checkout loop    *)
(* is one step, and the catalog requests are one step each.                *)
(*                                                                         *)
(* The model follows one checkout request, from its arrival to its reply,  *)
(* among any number of catalog requests before, during and after it.       *)
(* Checkout requests share nothing but the store.                          *)
(***************************************************************************)
EXTENDS Integers, Sequences, FiniteSets, TLC

\* ------------------------------------------------------------ bounds

MaxProducts == 1        \* product documents ever created
MaxCart == 2            \* cart lines in one checkout request

\* ------------------------------------------------------------ inputs

ProductIds == 1..(MaxProducts + 1)   \* the last one is never handed out

ValidEmails == {"buyer@wood.in"}
Emails == ValidEmails \cup {"not-an-email"}

\* POST /products bodies, before validation
CreatePayloads ==
    { [title |-> "Chair", price |-> 10000, currency |-> "inr", stock |-> 0],
      [title |-> "Stool", price |-> 1999, currency |-> "inr", stock |-> 0],
      [title |-> "Chair", price |-> -100, currency |-> "inr", stock |-> -1] }

\* PATCH /products/{id} bodies: the fields that are not None
UpdatePayloads ==
    { [title |-> "Stool", price |-> 1999],
      [title |-> "Stool", price |-> -100, stock |-> -1] }

\* the dicts of CheckoutRequest.items
CartLines ==
    { [product_id |-> p] : p \in ProductIds } \cup
    { [product_id |-> 1, quantity |-> 2, price |-> 1] }

Carts == UNION { [1..n -> CartLines] : n \in 0..MaxCart }

StripeErrors == {"Request req_1: card declined"}
SessionUrl == "https://checkout.stripe.com/c/pay/cs_test"
FRONTEND_URL == "http://localhost:3000"

\* ------------------------------------------------------------ state

VARIABLES
    STRIPE_SECRET,   \* the environment's STRIPE_SECRET_KEY, read at start
    db,              \* the document store: collections "product" and "order"
    sessions,        \* the calls received by the payment processor, with its answers
    pc,              \* the checkout handler: "idle", "loop" or "done"
    req,             \* its request
    idx,             \* the cart line its loop is at
    items,           \* simulated path: the OrderItems built
    total,           \* simulated path: the running total
    line_items,      \* real path: the descriptors built
    response,        \* what the checkout answered
    touched          \* history: the products updated while the checkout ran

vars == <<STRIPE_SECRET, db, sessions, pc, req, idx, items, total,
          line_items, response, touched>>

frame == <<req, idx, items, total, line_items>>

\* ------------------------------------------------------------ document store

EmptyCollection == [n |-> 0, docs |-> <<>>]

find_one(coll, id) == IF id \in DOMAIN coll.docs THEN {coll.docs[id]} ELSE {}

insert_one(coll, doc) == [n |-> coll.n + 1, docs |-> coll.docs @@ ((coll.n + 1) :> doc)]

\* database.create_document: insert the model's fields, hand back the new id
create_document(coll, doc) == insert_one(coll, doc)

update_one(coll, id, data) ==
    IF id \notin DOMAIN coll.docs THEN coll
    ELSE LET d == coll.docs[id]
             Set(f) == IF f \in DOMAIN data THEN data[f] ELSE d[f]
         IN  [coll EXCEPT !.docs[id] =
                 [title |-> Set("title"), price |-> Set("price"),
                  currency |-> Set("currency"), stock |-> Set("stock")]]

delete_one(coll, id) ==
    [coll EXCEPT !.docs = [i \in DOMAIN coll.docs \ {id} |-> coll.docs[i]]]

\* ------------------------------------------------------------ schemas

\* schemas.Product: price ge=0, stock ge=0
ProductValid(p) == p.price >= 0 /\ p.stock >= 0

\* schemas.OrderItem
OrderItem(product_id, title, unit_price, quantity, subtotal) ==
    [product_id |-> product_id, title |-> title, unit_price |-> unit_price,
     quantity |-> quantity, subtotal |-> subtotal]

\* schemas.Order: user_email is an EmailStr; currency, status and
\* payment_intent_id take their defaults unless given
OrderValid(user_email) == user_email \in ValidEmails

Order(user_email, its, tot) ==
    [user_email |-> user_email, items |-> its, total |-> tot,
     currency |-> "inr", status |-> "pending", payment_intent_id |-> "None"]

\* ------------------------------------------------------------ float

\* A positive double is its MantissaBits significant bits, most significant
\* first, with pt of them before the binary point.
MantissaBits == 53

RECURSIVE IntBits(_)
IntBits(n) == IF n = 0 THEN <<>> ELSE Append(IntBits(n \div 2), n % 2)

RECURSIVE BitsInt(_)
BitsInt(b) == IF b = <<>> THEN 0 ELSE 2 * BitsInt(SubSeq(b, 1, Len(b) - 1)) + b[Len(b)]

Zeros(n) == [i \in 1..n |-> 0]

StripZeros(b) ==
    IF \A i \in DOMAIN b : b[i] = 0 THEN <<>>
    ELSE SubSeq(b, CHOOSE i \in DOMAIN b : b[i] = 1 /\ \A j \in 1..(i - 1) : b[j] = 0, Len(b))

Incr(b) ==
    IF \A i \in DOMAIN b : b[i] = 1 THEN <<1>> \o Zeros(Len(b))
    ELSE LET k == CHOOSE i \in DOMAIN b : b[i] = 0 /\ \A j \in (i + 1)..Len(b) : b[j] = 1
         IN  SubSeq(b, 1, k - 1) \o <<1>> \o Zeros(Len(b) - k)

\* round to nearest, ties to even: bits are more than MantissaBits
\* significant bits, sticky tells of a nonzero rest beyond them
RoundNearestEven(bits, pt, sticky) ==
    LET keep == SubSeq(bits, 1, MantissaBits)
        guard == bits[MantissaBits + 1]
        rest == sticky \/ \E i \in (MantissaBits + 2)..Len(bits) : bits[i] = 1
        up == guard = 1 /\ (rest \/ keep[MantissaBits] = 1)
        inc == Incr(keep)
    IN  IF ~up THEN [sig |-> keep, pt |-> pt]
        ELSE IF Len(inc) > MantissaBits
             THEN [sig |-> SubSeq(inc, 1, MantissaBits), pt |-> pt + 1]
             ELSE [sig |-> inc, pt |-> pt]

\* the first n binary places of r / d (r < d) and the remainder left.
\* The test of r comes first so that r is evaluated before the places are.
RECURSIVE DivBits(_, _, _)
DivBits(n, r, d) ==
    IF r < 0 \/ n = 0 THEN [bits |-> <<>>, r |-> r]
    ELSE IF n = 1 THEN [bits |-> <<IF 2 * r >= d THEN 1 ELSE 0>>,
                        r |-> IF 2 * r >= d THEN 2 * r - d ELSE 2 * r]
    ELSE LET hi == DivBits(n \div 2, r, d)
             lo == DivBits(n - n \div 2, hi.r, d)
         IN  [bits |-> hi.bits \o lo.bits, r |-> lo.r]

\* the double nearest to n / d, for n > 0: a price as the store holds it
FloatDiv(n, d) ==
    LET q == IntBits(n \div d)
        f == DivBits(2 * MantissaBits, n % d, d)
        all == q \o f.bits
        bits == StripZeros(all)
    IN  RoundNearestEven(bits, Len(q) - (Len(all) - Len(bits)), f.r # 0)

\* bits * k + carry for a small k, from the least significant bit
RECURSIVE MulBits(_, _, _)
MulBits(bits, k, carry) ==
    IF carry < 0 \/ bits = <<>> THEN [bits |-> <<>>, carry |-> carry]
    ELSE IF Len(bits) = 1
         THEN [bits |-> <<(k * bits[1] + carry) % 2>>, carry |-> (k * bits[1] + carry) \div 2]
    ELSE LET h == Len(bits) \div 2
             lo == MulBits(SubSeq(bits, h + 1, Len(bits)), k, carry)
             hi == MulBits(SubSeq(bits, 1, h), k, lo.carry)
         IN  [bits |-> hi.bits \o lo.bits, carry |-> hi.carry]

\* x * k in double arithmetic, k a small positive integer
FloatMul(x, k) ==
    LET m == MulBits(x.sig, k, 0)
        p == IntBits(m.carry) \o m.bits
    IN  RoundNearestEven(Append(p, 0), x.pt + (Len(p) - MantissaBits), FALSE)

\* int(x) for a positive double below 2^31
FloatTrunc(x) == IF x.pt <= 0 THEN 0 ELSE BitsInt(SubSeq(x.sig, 1, x.pt))

\* int(float(price) * 100), price in hundredths
unit_amount(price) ==
    IF price = 0 THEN 0
    ELSE IF price > 0 THEN FloatTrunc(FloatMul(FloatDiv(price, 100), 100))
    ELSE 0 - FloatTrunc(FloatMul(FloatDiv(0 - price, 100), 100))

\* ------------------------------------------------------------ responses

Ok(body) == [status |-> 200, body |-> body]

\* fastapi.HTTPException(status_code, detail)
HTTPException(status_code, detail) == [status |-> status_code, detail |-> detail]

\* an exception that no handler catches
InternalServerError == [status |-> 500, detail |-> "Internal Server Error"]

\* str() of a starlette HTTPException: "<status_code>: <detail>"
StrHTTPException(e) == ToString(e.status) \o ": " \o e.detail

\* ------------------------------------------------------------ catalog requests
\*
\* The replies of the catalog requests (the new id, 404 for an id that
\* matches nothing, 422 for a body the schema refuses) are not kept: a
\* request that is refused or matches nothing leaves the state as it was.

Init ==
    /\ STRIPE_SECRET \in {"", "sk_test"}
    /\ db = [product |-> EmptyCollection, order |-> EmptyCollection]
    /\ sessions = <<>>
    /\ pc = "idle"
    /\ req = [items |-> <<>>, customer_email |-> "buyer@wood.in"]
    /\ idx = 1
    /\ items = <<>>
    /\ total = 0
    /\ line_items = <<>>
    /\ response = [status |-> 0]
    /\ touched = {}

\* POST /products
create_product(payload) ==
    /\ db.product.n < MaxProducts
    /\ db' = IF ProductValid(payload)
             THEN [db EXCEPT !.product = create_document(db.product, payload)]
             ELSE db
    /\ UNCHANGED <<STRIPE_SECRET, sessions, pc, frame, response, touched>>

\* update_product as it would be if the order lines were live references
\* to the product: the update reaches the lines already stored
update_product_cascade(product_id, payload) ==
    /\ db' = [product |-> update_one(db.product, product_id, payload),
              order |-> [db.order EXCEPT !.docs =
                  [o \in DOMAIN db.order.docs |->
                      [db.order.docs[o] EXCEPT !.items =
                          [k \in DOMAIN db.order.docs[o].items |->
                              LET item == db.order.docs[o].items[k]
                              IN  IF item.product_id = product_id /\ "price" \in DOMAIN payload
                                  THEN [item EXCEPT !.unit_price = payload.price]
                                  ELSE item]]]]]
    /\ touched' = IF pc = "loop" /\ product_id \in DOMAIN db.product.docs
                  THEN touched \cup {product_id} ELSE touched
    /\ UNCHANGED <<STRIPE_SECRET, sessions, pc, frame, response>>

\* PATCH /products/{product_id}.  touched only records that the update
\* happened while the checkout was running; no code reads it.
update_product(product_id, payload) ==
    /\ db' = [db EXCEPT !.product = update_one(db.product, product_id, payload)]
    /\ touched' = IF pc = "loop" /\ product_id \in DOMAIN db.product.docs
                  THEN touched \cup {product_id} ELSE touched
    /\ UNCHANGED <<STRIPE_SECRET, sessions, pc, frame, response>>

\* DELETE /products/{product_id}
delete_product(product_id) ==
    /\ db' = [db EXCEPT !.product = delete_one(db.product, product_id)]
    /\ UNCHANGED <<STRIPE_SECRET, sessions, pc, frame, response, touched>>

\* ------------------------------------------------------------ checkout

\* it.get("quantity", 0): the default mistaken
Quantity_default_zero(it) == IF "quantity" \in DOMAIN it THEN it.quantity ELSE 0

\* int(it.get("quantity", 1))
Quantity(it) == IF "quantity" \in DOMAIN it THEN it.quantity ELSE 1

\* OrderItem(..., unit_price=subtotal, ...): the two amounts mixed up
LineOrderItem_unit_is_subtotal(id, prod, qty) ==
    OrderItem(id, prod.title, prod.price * qty, qty, prod.price * qty)

\* the OrderItem of one resolved line
LineOrderItem(id, prod, qty) ==
    OrderItem(id, prod.title, prod.price, qty, prod.price * qty)

\* the processor-facing descriptor of one resolved line
LineDescriptor(prod, qty) ==
    [price_data |-> [currency |-> prod.currency,
                     product_data |-> [name |-> prod.title],
                     unit_amount |-> unit_amount(prod.price)],
     quantity |-> qty]

\* POST /checkout arrives
CheckoutBegin(r) ==
    /\ pc = "idle"
    /\ pc' = "loop"
    /\ req' = r
    /\ idx' = 1
    /\ items' = <<>>
    /\ total' = 0
    /\ line_items' = <<>>
    /\ response' = [status |-> 0]
    /\ touched' = {}
    /\ UNCHANGED <<STRIPE_SECRET, db, sessions>>

\* the loop as it would be if the simulated path stored what it had built
\* before reporting the missing product
CheckoutLine_partial_order ==
    /\ pc = "loop"
    /\ idx <= Len(req.items)
    /\ LET it == req.items[idx]
           found == find_one(db.product, it.product_id)
       IN  IF found = {}
           THEN /\ response' = IF STRIPE_SECRET = ""
                               THEN HTTPException(404, "Product not found")
                               ELSE HTTPException(400,
                                        StrHTTPException(HTTPException(404, "Product not found")))
                /\ db' = IF STRIPE_SECRET = "" /\ items # <<>>
                         THEN [db EXCEPT !.order =
                                  create_document(db.order, Order(req.customer_email, items, total))]
                         ELSE db
                /\ pc' = "done"
                /\ UNCHANGED <<idx, items, total, line_items>>
           ELSE LET prod == CHOOSE d \in found : TRUE
                    qty == Quantity(it)
                IN  /\ IF STRIPE_SECRET = ""
                       THEN /\ items' = Append(items, LineOrderItem(it.product_id, prod, qty))
                            /\ total' = total + prod.price * qty
                            /\ UNCHANGED line_items
                       ELSE /\ line_items' = Append(line_items, LineDescriptor(prod, qty))
                            /\ UNCHANGED <<items, total>>
                    /\ idx' = idx + 1
                    /\ UNCHANGED <<db, pc, response>>
    /\ UNCHANGED <<STRIPE_SECRET, sessions, req, touched>>

\* one pass of "for it in req.items", in either path
CheckoutLine ==
    /\ pc = "loop"
    /\ idx <= Len(req.items)
    /\ LET it == req.items[idx]
           found == find_one(db.product, it.product_id)
       IN  IF found = {}
           THEN /\ response' = IF STRIPE_SECRET = ""
                               THEN HTTPException(404, "Product not found")
                               ELSE HTTPException(400,
                                        StrHTTPException(HTTPException(404, "Product not found")))
                /\ pc' = "done"
                /\ UNCHANGED <<idx, items, total, line_items>>
           ELSE LET prod == CHOOSE d \in found : TRUE
                    qty == Quantity(it)
                IN  /\ IF STRIPE_SECRET = ""
                       THEN /\ items' = Append(items, LineOrderItem(it.product_id, prod, qty))
                            /\ total' = total + prod.price * qty
                            /\ UNCHANGED line_items
                       ELSE /\ line_items' = Append(line_items, LineDescriptor(prod, qty))
                            /\ UNCHANGED <<items, total>>
                    /\ idx' = idx + 1
                    /\ UNCHANGED <<pc, response>>
    /\ UNCHANGED <<STRIPE_SECRET, db, sessions, req, touched>>

\* simulated path, after the loop: build the Order and store it
CheckoutPersist ==
    /\ pc = "loop"
    /\ idx > Len(req.items)
    /\ STRIPE_SECRET = ""
    /\ IF OrderValid(req.customer_email)
       THEN /\ db' = [db EXCEPT !.order =
                         create_document(db.order, Order(req.customer_email, items, total))]
            /\ response' = Ok([success |-> TRUE, order_id |-> db.order.n + 1,
                               payment_simulated |-> TRUE])
       ELSE /\ response' = InternalServerError
            /\ UNCHANGED db
    /\ pc' = "done"
    /\ UNCHANGED <<STRIPE_SECRET, sessions, frame, touched>>

\* the call as the processor receives it
SessionRequest ==
    [mode |-> "payment", line_items |-> line_items,
     success_url |-> FRONTEND_URL \o "/checkout/success",
     cancel_url |-> FRONTEND_URL \o "/checkout/cancel",
     customer_email |-> req.customer_email]

\* the real path as it would be if it stored a pending order before it
\* redirects
CheckoutSession_pending_order ==
    /\ pc = "loop"
    /\ idx > Len(req.items)
    /\ STRIPE_SECRET # ""
    /\ \/ /\ sessions' = Append(sessions, [request |-> SessionRequest, error |-> ""])
          /\ response' = Ok([url |-> SessionUrl])
          /\ db' = [db EXCEPT !.order =
                       create_document(db.order, Order(req.customer_email, <<>>, 0))]
       \/ \E e \in StripeErrors :
             /\ sessions' = Append(sessions, [request |-> SessionRequest, error |-> e])
             /\ response' = HTTPException(400, e)
             /\ UNCHANGED db
    /\ pc' = "done"
    /\ UNCHANGED <<STRIPE_SECRET, frame, touched>>

\* the real path as it would be if a failed session request were tried again
CheckoutSession_retry ==
    /\ pc = "loop"
    /\ idx > Len(req.items)
    /\ STRIPE_SECRET # ""
    /\ \/ /\ sessions' = Append(sessions, [request |-> SessionRequest, error |-> ""])
          /\ response' = Ok([url |-> SessionUrl])
       \/ \E e \in StripeErrors :
             /\ sessions' = sessions \o << [request |-> SessionRequest, error |-> e],
                                           [request |-> SessionRequest, error |-> e] >>
             /\ response' = HTTPException(400, e)
    /\ pc' = "done"
    /\ UNCHANGED <<STRIPE_SECRET, db, frame, touched>>

\* real path, after the loop: stripe.checkout.Session.create, which answers
\* with a session or raises
CheckoutSession ==
    /\ pc = "loop"
    /\ idx > Len(req.items)
    /\ STRIPE_SECRET # ""
    /\ \/ /\ sessions' = Append(sessions, [request |-> SessionRequest, error |-> ""])
          /\ response' = Ok([url |-> SessionUrl])
       \/ \E e \in StripeErrors :
             /\ sessions' = Append(sessions, [request |-> SessionRequest, error |-> e])
             /\ response' = HTTPException(400, e)
    /\ pc' = "done"
    /\ UNCHANGED <<STRIPE_SECRET, db, frame, touched>>

\* ------------------------------------------------------------ specification

Next ==
    \/ \E payload \in CreatePayloads : create_product(payload)
    \/ \E id \in ProductIds, payload \in UpdatePayloads : update_product(id, payload)
    \/ \E id \in ProductIds : delete_product(id)
    \/ \E cart \in Carts, email \in Emails :
          CheckoutBegin([items |-> cart, customer_email |-> email])
    \/ CheckoutLine
    \/ CheckoutPersist
    \/ CheckoutSession

Spec == Init /\ [][Next]_vars

\* ------------------------------------------------------------ properties

Orders == { db.order.docs[o] : o \in DOMAIN db.order.docs }

Simulated == STRIPE_SECRET = ""

\* a step of the checkout handler (the catalog requests change none of these)
CheckoutStep == <<pc, idx, response>>' # <<pc, idx, response>>

\* the step that ends a checkout
CheckoutEnds == pc = "loop" /\ pc' = "done"

RECURSIVE SumSubtotals(_)
SumSubtotals(its) == IF its = <<>> THEN 0 ELSE Head(its).subtotal + SumSubtotals(Tail(its))

\* the quantity the claims give a cart line: its own, or 1 when it has none
ClaimedQuantity(it) == IF "quantity" \in DOMAIN it THEN it.quantity ELSE 1

\* C1: in simulated mode every order a checkout stores has status "paid".
C1_SimulatedOrderIsPaid ==
    Simulated => \A o \in Orders : o.status = "paid"

\* C2: a checkout that meets an absent product answers 404 in both modes;
\* 400 is answered only when the payment processor failed, with its message.
C2_BadRequestOnlyFromProcessor ==
    response.status = 400 =>
        /\ sessions # <<>>
        /\ sessions[Len(sessions)].error = response.detail
        /\ response.detail \in StripeErrors

\* C3: no order is stored and no payment session is requested before every
\* cart line of the request has been resolved; a checkout that ends on an
\* unresolvable line, at whatever position, ends with an error and has done
\* neither.
C3_NoEffectBeforeAllResolved ==
    [][ /\ (db'.order # db.order \/ sessions' # sessions) =>
              /\ pc = "loop"
              /\ idx > Len(req.items)
              /\ IF Simulated THEN Len(items) = Len(req.items)
                              ELSE Len(line_items) = Len(req.items)
        /\ (CheckoutEnds /\ idx <= Len(req.items)) =>
              /\ response'.status \in {400, 404}
              /\ db'.order = db.order
              /\ sessions' = sessions ]_vars

\* a checkout that resolved its first line, met an absent product on its
\* last line, and left no order and no session behind
C3_Witness ==
    /\ pc = "done"
    /\ response.status \in {400, 404}
    /\ idx = Len(req.items)
    /\ idx >= 2
    /\ Len(items) + Len(line_items) = idx - 1
    /\ Orders = {}
    /\ sessions = <<>>

\* C4: in simulated mode each item built takes its unit price from the
\* catalog record read for its line and its quantity from the line (1 when
\* the line has none), never the line's own price; its subtotal is
\* unit price x quantity; the stored order holds exactly those items, one per
\* cart line in input order, and its total is the sum of their subtotals.
C4_TotalFromCatalogPrices ==
    [][ /\ Len(items') = Len(items) + 1 =>
              LET it == req.items[idx]
                  new == items'[Len(items')]
              IN  /\ it.product_id \in DOMAIN db.product.docs
                  /\ new.product_id = it.product_id
                  /\ new.unit_price = db.product.docs[it.product_id].price
                  /\ new.quantity = ClaimedQuantity(it)
                  /\ new.subtotal = new.unit_price * new.quantity
                  /\ SubSeq(items', 1, Len(items)) = items
        /\ \A o \in DOMAIN db'.order.docs \ DOMAIN db.order.docs :
              /\ db'.order.docs[o].items = items
              /\ Len(items) = Len(req.items)
              /\ db'.order.docs[o].total = SumSubtotals(items) ]_vars

\* a stored order of two lines, the first without a quantity, the second
\* with quantity 2 and a price of its own that differs from the catalog's
C4_Witness ==
    /\ pc = "done"
    /\ response.status = 200
    /\ Len(req.items) = 2
    /\ "quantity" \notin DOMAIN req.items[1]
    /\ "price" \in DOMAIN req.items[2]
    /\ \E o \in Orders :
          /\ o.items = items
          /\ Len(o.items) = 2
          /\ o.items[1].quantity = 1
          /\ o.items[2].unit_price # req.items[2].price
          /\ o.total = 3 * 10000

\* C5: each descriptor built for the payment processor carries the catalog
\* price in minor units, round(unit_price x 100), and the line's quantity
\* (1 when the line has none).
C5_MinorUnitsRounded ==
    [][ Len(line_items') = Len(line_items) + 1 =>
            LET it == req.items[idx]
                new == line_items'[Len(line_items')]
            IN  /\ new.price_data.unit_amount = db.product.docs[it.product_id].price
                /\ new.quantity = ClaimedQuantity(it) ]_vars

\* C6: no step of a checkout changes the product collection; a checkout that
\* succeeds in simulated mode inserts exactly one order, on its last step,
\* and calls the processor never; one that succeeds in real mode calls the
\* processor exactly once, on its last step, and leaves the orders alone.
C6_SideEffectsByMode ==
    [][ CheckoutStep =>
          /\ db'.product = db.product
          /\ IF CheckoutEnds /\ response'.status = 200
             THEN IF Simulated
                  THEN /\ Cardinality(DOMAIN db'.order.docs) = Cardinality(DOMAIN db.order.docs) + 1
                       /\ \A o \in DOMAIN db.order.docs :
                             o \in DOMAIN db'.order.docs /\ db'.order.docs[o] = db.order.docs[o]
                       /\ sessions' = sessions
                       /\ sessions = <<>>
                  ELSE /\ Len(sessions') = Len(sessions) + 1
                       /\ SubSeq(sessions', 1, Len(sessions)) = sessions
                       /\ db'.order = db.order
             ELSE /\ db'.order = db.order
                  /\ sessions' # sessions => CheckoutEnds ]_vars

\* a simulated checkout has succeeded: one order stored, the processor never
\* called, the product still in the catalog
C6_Witness ==
    /\ Simulated
    /\ pc = "done"
    /\ response.status = 200
    /\ response.body.payment_simulated
    /\ Len(req.items) = 2
    /\ Cardinality(Orders) = 1
    /\ sessions = <<>>
    /\ DOMAIN db.product.docs # {}

\* C7: when the processor fails the session request, the checkout ends with
\* 400 and the processor's message, the processor has been called once for
\* it, and no order is stored.
C7_ProcessorFailure ==
    [][ (sessions' # sessions /\ sessions'[Len(sessions')].error # "") =>
          /\ Len(sessions') = Len(sessions) + 1
          /\ response' = [status |-> 400, detail |-> sessions'[Len(sessions')].error]
          /\ pc' = "done"
          /\ db' = db ]_vars

\* the processor refused a session for a cart of two resolved lines
C7_Witness ==
    /\ pc = "done"
    /\ response.status = 400
    /\ response.detail \in StripeErrors
    /\ Len(sessions) = 1
    /\ sessions[1].error = response.detail
    /\ Len(sessions[1].request.line_items) = 2
    /\ Orders = {}

\* C8: a stored order never changes: whatever request comes next, update and
\* delete of products included, every order is still there with the same
\* items, prices, subtotals and total.
C8_OrdersFrozen ==
    [][ \A o \in DOMAIN db.order.docs :
            /\ o \in DOMAIN db'.order.docs
            /\ db'.order.docs[o] = db.order.docs[o] ]_vars

\* an order whose product has since been given another price
C8_Witness ==
    \E o \in Orders : \E k \in DOMAIN o.items :
        /\ o.items[k].product_id \in DOMAIN db.product.docs
        /\ db.product.docs[o.items[k].product_id].price # o.items[k].unit_price
        /\ o.total = SumSubtotals(o.items)
        /\ o.total # 0

\* C9: every product of the catalog has price >= 0 and stock >= 0.
C9_ProductNonNegative ==
    \A p \in DOMAIN db.product.docs :
        db.product.docs[p].price >= 0 /\ db.product.docs[p].stock >= 0

\* whether lines j and k of the checkout carry the same snapshot
SameSnapshot(j, k) ==
    IF Simulated
    THEN /\ items[j].unit_price = items[k].unit_price
         /\ items[j].title = items[k].title
    ELSE /\ line_items[j].price_data.unit_amount = line_items[k].price_data.unit_amount
         /\ line_items[j].price_data.product_data = line_items[k].price_data.product_data

Resolved == 1..(IF Simulated THEN Len(items) ELSE Len(line_items))

\* C10 as stated: two lines of one checkout that reference the same product
\* carry the same unit price and title, whatever update_product requests
\* come between the lookups.
C10_SameSnapshotAlways ==
    \A j, k \in Resolved :
        req.items[j].product_id = req.items[k].product_id => SameSnapshot(j, k)

\* C10 amended: they carry the same unit price and title when no
\* update_product request for that product was applied while the checkout
\* was in progress.
C10_SameSnapshotUnlessUpdated ==
    \A j, k \in Resolved :
        (/\ req.items[j].product_id = req.items[k].product_id
         /\ req.items[j].product_id \notin touched) => SameSnapshot(j, k)

\* two resolved lines of different quantity for one product that was not
\* updated meanwhile
C10_Witness ==
    /\ Len(req.items) = 2
    /\ Resolved = {1, 2}
    /\ req.items[1].product_id = req.items[2].product_id
    /\ ClaimedQuantity(req.items[1]) # ClaimedQuantity(req.items[2])
    /\ req.items[1].product_id \notin touched

====
